---- MODULE Spec2Model ----
(***************************************************************************)
(* Model of pytest_gui_runner.py: the runner invoker (run_pytest), the     *)
(* summary parser (_parse_test_summary), the run history                   *)
(* (_add_run_to_history, _on_history_select) and the Tk callbacks of       *)
(* PytestGUI that drive them.                                              *)
(*                                                                         *)
(* Text is a sequence of tokens.  In a text the parser reads, a token is   *)
(* one character where the code looks at characters (a digit, a blank, the *)
(* newline) and otherwise a run of characters that holds no digit, no      *)
(* blank and no newline; the letter s that starts or follows a word is a   *)
(* token of its own ("errors" is "error","s" and "skipped" is              *)
(* "s","kipped"), so that a pattern sees every place where its key can     *)
(* begin or end.  A path is split at "/" and a flag into its characters.   *)
(***************************************************************************)
EXTENDS Integers, Sequences, FiniteSets, TLC

VARIABLES
    selected_path, is_directory, last_stdout, last_stderr, boot_in_progress,
    scan_x, cursor_on,
    tests_passed, tests_failed, tests_errors, tests_skipped, tests_total,
    cpu_usage, ram_used_gb,
    run_history,
    mode_var, flag_var, select_button, run_button,
    path_label, output_text, summary_labels, history_listbox, cursor_label,
    boot_timer,
    pc, frame, escaped, dialog,
    runs_started, recorded, ticks,
    event, probe

vars ==
    << selected_path, is_directory, last_stdout, last_stderr, boot_in_progress,
       scan_x, cursor_on,
       tests_passed, tests_failed, tests_errors, tests_skipped, tests_total,
       cpu_usage, ram_used_gb,
       run_history,
       mode_var, flag_var, select_button, run_button,
       path_label, output_text, summary_labels, history_listbox, cursor_label,
       boot_timer,
       pc, frame, escaped, dialog,
       runs_started, recorded, ticks,
       event, probe >>

-----------------------------------------------------------------------------
(* Bounds of the exploration.                                              *)

\* runs a session may start: in Spec, in SpecRuns and in SpecHistory
MaxLoopRuns == 2
MaxRuns == 2
MaxRecords == 6
\* timer callbacks (cursor, scanline, HUD) a session may fire
MaxTicks == 1
\* length of the texts the parser is tried on, token by token
MaxTextLen == 4
\* number of summary lines joined into one text for the parser
MaxLines == 3

-----------------------------------------------------------------------------
(* Python values.                                                          *)

\* None, kept apart from every string (the empty string is <<>>)
None == << "<None>" >>

\* truth value of an Optional[str]: None and "" are false
Truthy(s) == s # None /\ s # << >>

UpperLetters ==
    << "A", "B", "C", "D", "E", "F", "G", "H", "I", "J", "K", "L", "M",
       "N", "O", "P", "Q", "R", "S", "T", "U", "V", "W", "X", "Y", "Z" >>

LowerLetters ==
    << "a", "b", "c", "d", "e", "f", "g", "h", "i", "j", "k", "l", "m",
       "n", "o", "p", "q", "r", "s", "t", "u", "v", "w", "x", "y", "z" >>

LowerChar(c) ==
    IF \E i \in 1..26 : UpperLetters[i] = c
    THEN LowerLetters[CHOOSE i \in 1..26 : UpperLetters[i] = c]
    ELSE c

\* str.lower()
Lower(s) == [i \in 1..Len(s) |-> LowerChar(s[i])]

DigitChars == << "0", "1", "2", "3", "4", "5", "6", "7", "8", "9" >>

IsDigit(c) == \E i \in 1..10 : DigitChars[i] = c

DigitValue(c) == (CHOOSE i \in 1..10 : DigitChars[i] = c) - 1

\* the characters \s matches inside one line
IsSpace(c) == c \in {" ", "\t"}

RECURSIVE IntOf(_)
\* int() of a run of decimal digits
IntOf(digits) ==
    IF digits = << >> THEN 0
    ELSE 10 * IntOf(SubSeq(digits, 1, Len(digits) - 1))
         + DigitValue(digits[Len(digits)])

RECURSIVE Concat(_)
\* "".join(parts)
Concat(parts) ==
    IF parts = << >> THEN << >> ELSE Head(parts) \o Concat(Tail(parts))

RECURSIVE SumSeq(_)
SumSeq(s) == IF s = << >> THEN 0 ELSE Head(s) + SumSeq(Tail(s))

RECURSIVE SplitFrom(_, _, _)
SplitFrom(text, i, cur) ==
    IF i > Len(text)
    THEN IF cur = << >> THEN << >> ELSE << cur >>
    ELSE IF text[i] = "\n"
         THEN << cur >> \o SplitFrom(text, i + 1, << >>)
         ELSE SplitFrom(text, i + 1, Append(cur, text[i]))

\* str.splitlines(): no line for the text after a final newline
SplitLines(text) == SplitFrom(text, 1, << >>)

\* needle in line
Contains(line, needle) ==
    \E i \in 1..(Len(line) - Len(needle) + 1) :
        SubSeq(line, i, i + Len(needle) - 1) = needle

-----------------------------------------------------------------------------
(* _parse_test_summary                                                     *)

\* pattern_map, in the order of the dict: key of the pattern, label counted
pattern_map ==
    << << << "passed" >>, "passed" >>,
       << << "failed" >>, "failed" >>,
       << << "error" >>, "errors" >>,
       << << "error", "s" >>, "errors" >>,
       << << "s", "kipped" >>, "skipped" >> >>

\* the test that makes a line a candidate summary line
IsCandidate(line) ==
    \/ Contains(line, << " ", "passed" >>)
    \/ Contains(line, << " ", "failed" >>)
    \/ Contains(line, << " ", "s", "kipped" >>)
    \/ Contains(line, << " ", "error" >>)

RECURSIVE DigitsEnd(_, _)
\* first position at or after p that holds no digit: the greedy \d+
DigitsEnd(line, p) ==
    IF p <= Len(line) /\ IsDigit(line[p]) THEN DigitsEnd(line, p + 1) ELSE p

RECURSIVE SpaceEnd(_, _)
\* first position at or after p that holds no blank: the greedy \s+
SpaceEnd(line, p) ==
    IF p <= Len(line) /\ IsSpace(line[p]) THEN SpaceEnd(line, p + 1) ELSE p

\* the position after a match of (\d+)\s+key that starts at p, 0 if none
MatchAt(line, key, p) ==
    LET d == DigitsEnd(line, p)
        w == SpaceEnd(line, d)
    IN  IF /\ d > p
           /\ w > d
           /\ w + Len(key) - 1 <= Len(line)
           /\ SubSeq(line, w, w + Len(key) - 1) = key
        THEN w + Len(key)
        ELSE 0

RECURSIVE FindIter(_, _, _)
\* int(match.group(1)) of the matches of re.finditer, left to right, from p
FindIter(line, key, p) ==
    IF p > Len(line) THEN << >>
    ELSE LET e == MatchAt(line, key, p)
         IN  IF e # 0
             THEN << IntOf(SubSeq(line, p, DigitsEnd(line, p) - 1)) >>
                  \o FindIter(line, key, e)
             ELSE FindIter(line, key, p + 1)

\* what one line adds to the accumulator of a label, over all keys of the map
LineAdds(line, label) ==
    SumSeq([k \in 1..Len(pattern_map) |->
               IF pattern_map[k][2] = label
               THEN SumSeq(FindIter(line, pattern_map[k][1], 1))
               ELSE 0])

\* the accumulator of a label after the loop over text.splitlines()
Accumulate(text, label) ==
    LET lines == SplitLines(text)
    IN  SumSeq([n \in 1..Len(lines) |->
                   IF IsCandidate(lines[n]) THEN LineAdds(lines[n], label)
                   ELSE 0])

\* a total that leaves the skipped tests out
TotalWithoutSkipped(passed, failed, errors, skipped) == passed + failed + errors

\* total = passed + failed + errors + skipped
TotalOf(passed, failed, errors, skipped) == passed + failed + errors + skipped

\* a local that starts from the counter the window stores
StartCountCarried(stored) == stored

\* passed = failed = errors = skipped = 0: the locals start from 0, whatever
\* the window stores
StartCount(stored) == 0

\* the counts _parse_test_summary stores for a text
ParseTestSummary(text) ==
    LET passed == StartCount(tests_passed) + Accumulate(text, "passed")
        failed == StartCount(tests_failed) + Accumulate(text, "failed")
        errors == StartCount(tests_errors) + Accumulate(text, "errors")
        skipped == StartCount(tests_skipped) + Accumulate(text, "skipped")
    IN  [ total |-> TotalOf(passed, failed, errors, skipped),
          passed |-> passed, failed |-> failed,
          errors |-> errors, skipped |-> skipped ]

-----------------------------------------------------------------------------
(* run_pytest                                                              *)

\* sys.executable
SysExecutable == << "python" >>

\* the sentinel the flag is compared with
NormalSentinel == << "n", "o", "r", "m", "a", "l" >>

\* the sentinel compared without lower()
FlagAppendedExact(flag) ==
    Truthy(flag) /\ flag # << "N", "o", "r", "m", "a", "l" >>

\* the test that appends the flag to cmd
FlagAppended(flag) == Truthy(flag) /\ Lower(flag) # NormalSentinel

\* cmd, as handed to subprocess.run
BuildCmd(target_path, flag) ==
    << SysExecutable, << "-m" >>, << "pytest" >> >>
    \o (IF FlagAppended(flag) THEN << flag >> ELSE << >>)
    \o << target_path >>

\* the classes an exception of subprocess.run is an instance of
ExceptionBases(exc) ==
    CASE exc = "FileNotFoundError" ->
            {"FileNotFoundError", "OSError", "Exception", "BaseException"}
      [] exc = "PermissionError" ->
            {"PermissionError", "OSError", "Exception", "BaseException"}
      [] exc = "UnicodeDecodeError" ->
            {"UnicodeDecodeError", "ValueError", "Exception", "BaseException"}

\* a handler that takes OSError alone
CaughtOSErrorOnly(exc) == "OSError" \in ExceptionBases(exc)

\* except Exception
Caught(exc) == "Exception" \in ExceptionBases(exc)

\* f"Unexpected error running pytest: {exc}"
ErrorMessage(msg) ==
    << "Unexpected", " ", "error", " ", "running", " ", "pytest:", " " >> \o msg

\* what subprocess.run does with a command: a completed process, or an exception
Completed(out, err, code) ==
    [ kind |-> "completed", stdout |-> out, stderr |-> err, returncode |-> code,
      exc |-> "", msg |-> << >> ]

Raises(exc, msg) ==
    [ kind |-> "raises", stdout |-> << >>, stderr |-> << >>, returncode |-> 0,
      exc |-> exc, msg |-> msg ]

\* run_pytest under the behaviour os of subprocess.run; raised: the exception
\* leaves run_pytest
run_pytest(target_path, is_dir, flag, os) ==
    LET cmd == BuildCmd(target_path, flag)
    IN  IF os.kind = "completed"
        THEN [ raised |-> FALSE, cmd |-> cmd, stdout |-> os.stdout,
               stderr |-> os.stderr, return_code |-> os.returncode ]
        ELSE IF Caught(os.exc)
        THEN [ raised |-> FALSE, cmd |-> cmd, stdout |-> << >>,
               stderr |-> ErrorMessage(os.msg), return_code |-> 1 ]
        ELSE [ raised |-> TRUE, cmd |-> cmd, stdout |-> << >>,
               stderr |-> << >>, return_code |-> 0 ]

-----------------------------------------------------------------------------
(* Widgets and strings of the window.                                      *)

\* Text.get("1.0", tk.END): the content and the newline Tk keeps at the end
TextGet(content) == content \o << "\n" >>

IsBlank(c) == c \in {" ", "\t", "\n"}

RECURSIVE RStrip(_)
\* str.rstrip()
RStrip(s) ==
    IF s # << >> /\ IsBlank(s[Len(s)]) THEN RStrip(SubSeq(s, 1, Len(s) - 1))
    ELSE s

\* str.strip() is not empty
StripNonEmpty(s) == \E i \in 1..Len(s) : ~IsBlank(s[i])

EndsWithUnderscore(s) == s # << >> /\ s[Len(s)] = "_"

\* the text _blink_cursor writes back
BlinkText(text, on) ==
    IF on
    THEN IF EndsWithUnderscore(text)
         THEN SubSeq(text, 1, Len(text) - 1) \o << " " >>
         ELSE text
    ELSE IF ~EndsWithUnderscore(text)
         THEN RStrip(text) \o << "_" >>
         ELSE text

\* a status text "<words> _"
Label(words) == << words, " ", "_" >>

RECURSIVE LastSlash(_, _)
\* position of the last "/" at or before p, 0 if none
LastSlash(path, p) ==
    IF p = 0 THEN 0
    ELSE IF path[p] = "/" THEN p ELSE LastSlash(path, p - 1)

\* os.path.basename(path)
Basename(path) == SubSeq(path, LastSlash(path, Len(path)) + 1, Len(path))

\* _boot_lines
BootLines ==
    << "[CYBERTEST v1.0.0] initializing diagnostic core...",
       "[OK]   loading neon theme shaders",
       "[OK]   linking pytest runtime module",
       "[OK]   scanning local filesystem for test targets",
       "[OK]   entropy pool charged",
       "[SYS]  console interface online",
       "",
       "[HINT] select a file or folder to begin test run.",
       "" >>

\* the values of the flag combobox
FlagValues ==
    { << "N", "o", "r", "m", "a", "l" >>, << "-", "q" >>,
      << "-", "v", "v" >>, << "-", "x" >> }

-----------------------------------------------------------------------------
(* _add_run_to_history and _on_history_select                              *)

\* the length the history is cut to
HistoryCap == 5

\* a status that does not look at the errors
HistoryStatusNoErrors(exit_code, failed, errors) ==
    IF exit_code # 0 \/ failed > 0 THEN "ISSUE" ELSE "OK"

\* status, as _add_run_to_history derives it
HistoryStatus(exit_code, failed, errors) ==
    IF exit_code # 0 \/ failed > 0 \/ errors > 0 THEN "ISSUE" ELSE "OK"

\* the words run_tests writes into the status bar
CompletionWords(exit_code, failed, errors) ==
    IF failed > 0 \/ errors > 0 \/ exit_code # 0
    THEN "> RUN COMPLETE (ISSUES)"
    ELSE "> RUN COMPLETE (OK)"

TargetType(is_dir) == IF is_dir THEN "FOLDER" ELSE "FILE"

\* the name taken as the whole path
TargetNameWholePath(path) == IF Truthy(path) THEN path ELSE << "?" >>

\* name = os.path.basename(self.selected_path or "?") or that name itself
TargetName(path) ==
    LET name == IF Truthy(path) THEN path ELSE << "?" >>
    IN  IF Basename(name) # << >> THEN Basename(name) ELSE name

\* the summary line of an entry
SummaryLine(timestamp, status, exit_code, counts, target_type, name) ==
    << timestamp, " | ", status, " | code=", ToString(exit_code),
       " | T:", ToString(counts.total), " P:", ToString(counts.passed),
       " F:", ToString(counts.failed), " E:", ToString(counts.errors),
       " S:", ToString(counts.skipped), " | ", target_type, ":" >> \o name

\* the counters of the window, as a counts dict
CurrentCounts ==
    [ total |-> tests_total, passed |-> tests_passed, failed |-> tests_failed,
      errors |-> tests_errors, skipped |-> tests_skipped ]

\* the entry _add_run_to_history builds
NewEntry(exit_code, flag, output, timestamp) ==
    LET status == HistoryStatus(exit_code, tests_failed, tests_errors)
        target_type == TargetType(is_directory)
        name == TargetName(selected_path)
    IN  [ summary |-> SummaryLine(timestamp, status, exit_code, CurrentCounts,
                                  target_type, name),
          output |-> output,
          exit_code |-> exit_code,
          flag |-> flag,
          timestamp |-> timestamp,
          target_type |-> target_type,
          target_name |-> name,
          counts |-> CurrentCounts ]

\* s[:n]: the cut kept at the wrong end
FirstN(s, n) == IF Len(s) <= n THEN s ELSE SubSeq(s, 1, n)

\* s[-n:]
LastN(s, n) == IF Len(s) <= n THEN s ELSE SubSeq(s, Len(s) - n + 1, Len(s))

\* a full list that gives up its newest entry for the new one
RecordedOverNewest(history, entry) ==
    IF Len(history) < HistoryCap THEN Append(history, entry)
    ELSE Append(SubSeq(history, 1, Len(history) - 1), entry)

\* the entry put at the head of the list
RecordedAtHead(history, entry) == LastN(<< entry >> \o history, HistoryCap)

\* run_history after the append and the cut
Recorded(history, entry) == LastN(Append(history, entry), HistoryCap)

\* the lines of the listbox: the summaries, newest at the top
ListboxOf(history) ==
    [i \in 1..Len(history) |-> history[Len(history) + 1 - i].summary]

\* the display index taken as the history index
HistoryIndexUnreversed(history, display_index) == display_index

\* history_index of a display index
HistoryIndex(history, display_index) == Len(history) - 1 - display_index

\* the entry a selection shows, as a sequence of none or one entry; selection
\* is curselection(): a sequence of display indices counted from 0
SelectedEntry(history, selection) ==
    IF selection = << >> THEN << >>
    ELSE IF history = << >> THEN << >>
    ELSE LET history_index == HistoryIndex(history, selection[1])
         IN  IF history_index < 0 \/ history_index >= Len(history) THEN << >>
             ELSE << history[history_index + 1] >>

-----------------------------------------------------------------------------
(* The inputs the callbacks are tried on.                                  *)

\* what the file dialog and the folder dialog can return
FilePaths == { << "/", "p", "/", "test_a.py" >> }

DirPaths == { << "/", "p", "/", "tests" >> }

\* behaviours of subprocess.run
OkRun ==
    Completed(<< "2", " ", "passed", " ", "in", " ", "0", ".", "1", "s", "\n" >>,
              << >>, 0)

FailRun ==
    Completed(<< "1", " ", "failed", ",", " ", "1", " ", "passed", ",", " ",
                 "1", " ", "s", "kipped", "\n" >>,
              << >>, 1)

NoisyRun ==
    Completed(<< "1", " ", "passed", "\n" >>, << "1", " ", "error", "\n" >>, 0)

KilledRun == Completed(<< >>, << >>, -9)

SpawnFails ==
    Raises("FileNotFoundError",
           << "[Errno", " ", "2", "]", " ", "No", " ", "s", "uch", " ", "file" >>)

DeniedSpawn ==
    Raises("PermissionError",
           << "[Errno", " ", "1", "3", "]", " ", "Permission", " ", "denied" >>)

DecodeFails ==
    Raises("UnicodeDecodeError", << "'utf-", "8", "'", " ", "codec" >>)

Outcomes == { OkRun, FailRun, NoisyRun, KilledRun, SpawnFails, DecodeFails }

LoopOutcomes == { OkRun }

HistoryOutcomes == { OkRun, FailRun, SpawnFails }

\* what the user picks in the flag combobox
LoopFlags == { << "N", "o", "r", "m", "a", "l" >>, << "-", "x" >> }

RunFlags == { << "N", "o", "r", "m", "a", "l" >>, << "-", "q" >> }

\* readings of datetime.now().strftime("%H:%M:%S")
Times == { "12:00:00" }

\* curselection(): nothing selected, or one display index
Selections == { << >> } \cup { << i >> : i \in 0..HistoryCap }

LoopSelections == { << >>, << 0 >>, << 1 >> }

\* winfo_width() of the scanline canvas: 1 before it is mapped
CanvasWidths == { 200 }

\* draws of random.randint(-10, 10), random.randint(15, 40) and
\* round(random.uniform(3.0, 14.0), 1) in tenths
RandDelta == { 10 }

RandBase == { 15 }

RandRam == { 30 }

-----------------------------------------------------------------------------
(* The window after __init__.                                              *)

NoFrame == [ flag |-> None, stdout |-> << >>, stderr |-> << >>, return_code |-> 0 ]

NoEvent == [ widget |-> "", selection |-> << >> ]

NoProbe == [ fn |-> "none", args |-> << >>, done |-> FALSE, result |-> << >> ]

ZeroCounts == [ total |-> 0, passed |-> 0, failed |-> 0, errors |-> 0, skipped |-> 0 ]

InitWindow ==
    /\ selected_path = None
    /\ is_directory = FALSE
    /\ last_stdout = << >>
    /\ last_stderr = << >>
    /\ boot_in_progress = TRUE
    /\ scan_x = 0
    /\ cursor_on = TRUE
    /\ tests_passed = 0
    /\ tests_failed = 0
    /\ tests_errors = 0
    /\ tests_skipped = 0
    /\ tests_total = 0
    /\ cpu_usage = 0
    /\ ram_used_gb = 0
    /\ run_history = << >>
    /\ mode_var = "file"
    /\ flag_var = << "N", "o", "r", "m", "a", "l" >>
    /\ select_button = [ state |-> "disabled", text |-> "SELECT TARGET" ]
    /\ run_button = [ state |-> "disabled" ]
    /\ path_label = << "// no target selected" >>
    /\ output_text = << >>
    /\ summary_labels = ZeroCounts
    /\ history_listbox = << >>
    /\ cursor_label = Label("> BOOTING")
    /\ boot_timer = [ callback |-> "_start_boot_sequence", index |-> 0 ]
    /\ pc = "mainloop"
    /\ frame = NoFrame
    /\ escaped = FALSE
    /\ dialog = ""
    /\ runs_started = 0
    /\ recorded = << >>
    /\ ticks = 0
    /\ event = NoEvent

Init == InitWindow /\ probe = NoProbe

-----------------------------------------------------------------------------
(* The event loop.                                                         *)

\* the kinds of callback update() would run
UpdateAll == { "idle", "timer", "user" }

\* the kinds of callback update_idletasks() runs
UpdateIdletasks == { "idle" }

\* a callback of this kind can be run now: by mainloop, or from inside
\* run_tests where it hands control to Tk
CanDispatch(kind) ==
    \/ pc = "mainloop"
    \/ pc = "banner" /\ kind \in UpdateIdletasks

targetVars == << selected_path, is_directory, mode_var, select_button, run_button, path_label >>

counterVars ==
    << tests_passed, tests_failed, tests_errors, tests_skipped, tests_total,
       summary_labels >>

resultVars == << last_stdout, last_stderr >>

historyVars == << run_history, history_listbox, recorded >>

hudVars == << scan_x, cpu_usage, ram_used_gb >>

bootVars == << boot_in_progress, boot_timer >>

runVars == << pc, frame, escaped, runs_started >>

-----------------------------------------------------------------------------
(* Boot sequence and timers.                                               *)

\* _start_boot_sequence, with its call of _boot_step(0)
StartBootSequence ==
    /\ CanDispatch("timer")
    /\ boot_timer.callback = "_start_boot_sequence"
    /\ output_text' = << BootLines[1], "\n" >>
    /\ boot_timer' = [ callback |-> "_boot_step", index |-> 1 ]
    /\ dialog' = ""
    /\ event' = NoEvent
    /\ UNCHANGED << targetVars, counterVars, resultVars, historyVars, hudVars,
                    runVars, boot_in_progress, flag_var, cursor_label,
                    cursor_on, ticks, probe >>

\* _boot_step(index), run by the timer
BootStep ==
    /\ CanDispatch("timer")
    /\ boot_timer.callback = "_boot_step"
    /\ IF boot_timer.index < Len(BootLines)
       THEN /\ output_text' =
                   output_text \o << BootLines[boot_timer.index + 1], "\n" >>
            /\ boot_timer' = [ boot_timer EXCEPT !.index = @ + 1 ]
            /\ UNCHANGED << boot_in_progress, select_button, cursor_label >>
       ELSE /\ boot_in_progress' = FALSE
            /\ select_button' = [ select_button EXCEPT !.state = "normal" ]
            /\ cursor_label' = Label("> READY")
            /\ boot_timer' = [ callback |-> "none", index |-> 0 ]
            /\ UNCHANGED output_text
    /\ dialog' = ""
    /\ event' = NoEvent
    /\ UNCHANGED << selected_path, is_directory, mode_var, run_button,
                    path_label, counterVars, resultVars, historyVars, hudVars,
                    runVars, flag_var, cursor_on, ticks, probe >>

\* _blink_cursor
BlinkCursor ==
    /\ CanDispatch("timer")
    /\ ticks < MaxTicks
    /\ ticks' = ticks + 1
    /\ cursor_label' = BlinkText(cursor_label, cursor_on)
    /\ cursor_on' = ~cursor_on
    /\ dialog' = ""
    /\ event' = NoEvent
    /\ UNCHANGED << targetVars, counterVars, resultVars, historyVars, hudVars,
                    bootVars, runVars, flag_var, output_text, probe >>

\* scan_x after one step over a canvas of this width
ScanStep(x, width) ==
    IF width > 0 THEN (IF x + 12 > width THEN -80 ELSE x + 12) ELSE x

\* _animate_scanline
AnimateScanline ==
    /\ CanDispatch("timer")
    /\ ticks < MaxTicks
    /\ ticks' = ticks + 1
    /\ \E width \in CanvasWidths : scan_x' = ScanStep(scan_x, width)
    /\ dialog' = ""
    /\ event' = NoEvent
    /\ UNCHANGED << targetVars, counterVars, resultVars, historyVars,
                    cpu_usage, ram_used_gb, bootVars, runVars, flag_var,
                    output_text, cursor_label, cursor_on, probe >>

\* max(5, min(98, base + delta))
ClampCpu(v) == IF v < 5 THEN 5 ELSE IF v > 98 THEN 98 ELSE v

\* _update_hud
UpdateHud ==
    /\ CanDispatch("timer")
    /\ ticks < MaxTicks
    /\ ticks' = ticks + 1
    /\ \E delta \in RandDelta, drawn \in RandBase, ram \in RandRam :
          /\ cpu_usage' =
                 ClampCpu((IF cpu_usage # 0 THEN cpu_usage ELSE drawn) + delta)
          /\ ram_used_gb' = ram
    /\ dialog' = ""
    /\ event' = NoEvent
    /\ UNCHANGED << targetVars, counterVars, resultVars, historyVars, scan_x,
                    bootVars, runVars, flag_var, output_text, cursor_label,
                    cursor_on, probe >>

-----------------------------------------------------------------------------
(* Target, mode and flag.                                                  *)

\* the user picks a value of the flag combobox
SelectFlag(flags) ==
    /\ CanDispatch("user")
    /\ \E f \in flags : flag_var' = f
    /\ dialog' = ""
    /\ event' = NoEvent
    /\ UNCHANGED << targetVars, counterVars, resultVars, historyVars, hudVars,
                    bootVars, runVars, output_text, cursor_label, cursor_on,
                    ticks, probe >>

\* _on_mode_change without the line that disables the RUN button
OnModeChangeButtonLeft ==
    /\ CanDispatch("user")
    /\ \E mode \in { "file", "folder" } :
          /\ mode_var' = mode
          /\ select_button' =
                 [ select_button EXCEPT
                     !.text = IF mode = "file" THEN "SELECT FILE"
                              ELSE "SELECT FOLDER" ]
    /\ selected_path' = None
    /\ is_directory' = FALSE
    /\ path_label' = << "// no target selected" >>
    /\ output_text' = << >>
    /\ dialog' = ""
    /\ event' = NoEvent
    /\ UNCHANGED << run_button, counterVars, resultVars, historyVars, hudVars,
                    bootVars, runVars, flag_var, cursor_label, cursor_on,
                    ticks, probe >>

\* a radio button is clicked: Tk sets mode_var, then runs _on_mode_change
OnModeChange ==
    /\ CanDispatch("user")
    /\ \E mode \in { "file", "folder" } :
          /\ mode_var' = mode
          /\ select_button' =
                 [ select_button EXCEPT
                     !.text = IF mode = "file" THEN "SELECT FILE"
                              ELSE "SELECT FOLDER" ]
    /\ selected_path' = None
    /\ is_directory' = FALSE
    /\ path_label' = << "// no target selected" >>
    /\ run_button' = [ run_button EXCEPT !.state = "disabled" ]
    /\ output_text' = << >>
    /\ dialog' = ""
    /\ event' = NoEvent
    /\ UNCHANGED << counterVars, resultVars, historyVars, hudVars, bootVars,
                    runVars, flag_var, cursor_label, cursor_on, ticks, probe >>

\* select_path: the SELECT button is clicked; path is what the dialog
\* returns, the empty string when the user cancels
SelectPath(files, dirs) ==
    /\ CanDispatch("user")
    /\ select_button.state = "normal"
    /\ \E path \in (IF mode_var = "file" THEN files ELSE dirs) \cup { << >> } :
          LET isdir == (mode_var # "file")
          IN  IF ~Truthy(path)
              THEN UNCHANGED << selected_path, is_directory, path_label,
                                run_button, output_text >>
              ELSE /\ selected_path' = path
                   /\ is_directory' = isdir
                   /\ path_label' =
                          << IF ~isdir THEN "// file: " ELSE "// folder: " >>
                          \o path
                   /\ run_button' = [ run_button EXCEPT !.state = "normal" ]
                   /\ output_text' =
                          << "[READY] target locked. execute RUN PYTEST to begin.",
                             "\n", "\n" >>
    /\ dialog' = ""
    /\ event' = NoEvent
    /\ UNCHANGED << mode_var, select_button, counterVars, resultVars,
                    historyVars, hudVars, bootVars, runVars, flag_var,
                    cursor_label, cursor_on, ticks, probe >>

-----------------------------------------------------------------------------
(* run_tests                                                               *)

\* run_tests without the return after the warning: the request is recorded
RunNoTargetRecorded ==
    /\ CanDispatch("user")
    /\ ~Truthy(selected_path)
    /\ dialog' = "No target"
    /\ event' = NoEvent
    /\ \E timestamp \in Times :
          LET entry == NewEntry(1, flag_var, TextGet(output_text), timestamp)
          IN  /\ run_history' = LastN(Append(run_history, entry), HistoryCap)
              /\ recorded' = Append(recorded, entry)
    /\ history_listbox' = << run_history'[Len(run_history')].summary >>
    /\ UNCHANGED << targetVars, counterVars, resultVars, hudVars, bootVars,
                    runVars, flag_var, output_text, cursor_label, cursor_on,
                    ticks, probe >>

\* run_tests with no target: the warning, and nothing else
RunNoTarget ==
    /\ CanDispatch("user")
    /\ ~Truthy(selected_path)
    /\ dialog' = "No target"
    /\ event' = NoEvent
    /\ UNCHANGED << targetVars, counterVars, resultVars, historyVars, hudVars,
                    bootVars, runVars, flag_var, output_text, cursor_label,
                    cursor_on, ticks, probe >>

\* the test that writes the [FLAG] line of the banner
BannerFlagShown(flag) == Truthy(flag) /\ Lower(flag) # NormalSentinel

\* the text run_tests writes before it calls the runner
Banner(is_dir, path, flag) ==
    << "[BOOT] pytest engaged on ", TargetType(is_dir), ":", "\n" >>
    \o path \o << "\n" >>
    \o (IF BannerFlagShown(flag) THEN << "[FLAG] " >> \o flag \o << "\n" >>
        ELSE << >>)
    \o << "\n" >>

\* run_tests up to update_idletasks()
RunStart(limit) ==
    /\ CanDispatch("user")
    /\ Truthy(selected_path)
    /\ runs_started < limit
    /\ runs_started' = runs_started + 1
    /\ frame' = [ NoFrame EXCEPT !.flag = flag_var ]
    /\ output_text' = Banner(is_directory, selected_path, flag_var)
    /\ pc' = "banner"
    /\ dialog' = ""
    /\ event' = NoEvent
    /\ UNCHANGED << targetVars, counterVars, resultVars, historyVars, hudVars,
                    bootVars, escaped, flag_var, cursor_label, cursor_on,
                    ticks, probe >>

\* the call of run_pytest: it blocks until the child ends; an exception that
\* run_pytest lets through ends the callback in Tk's report_callback_exception
RunInvoke(outcomes) ==
    /\ pc = "banner"
    /\ \E os \in outcomes :
          LET r == run_pytest(selected_path, is_directory, frame.flag, os)
          IN  IF r.raised
              THEN /\ escaped' = TRUE
                   /\ frame' = NoFrame
                   /\ pc' = "mainloop"
              ELSE /\ frame' = [ frame EXCEPT !.stdout = r.stdout,
                                              !.stderr = r.stderr,
                                              !.return_code = r.return_code ]
                   /\ pc' = "returned"
                   /\ UNCHANGED escaped
    /\ UNCHANGED << event, targetVars, counterVars, resultVars, historyVars, hudVars,
                    bootVars, runs_started, flag_var, output_text,
                    cursor_label, cursor_on, ticks, dialog, probe >>

\* the blocks in the other order, the errors first
OutputBlocksErrorsFirst(stdout, stderr) ==
    (IF stderr # << >>
     THEN << "=== PYTEST ERRORS ===", "\n" >> \o stderr \o << "\n" >>
     ELSE << >>)
    \o (IF stdout # << >>
        THEN << "=== PYTEST OUTPUT ===", "\n" >> \o stdout \o << "\n" >>
        ELSE << >>)

\* the blocks run_tests writes for stdout and stderr
OutputBlocks(stdout, stderr) ==
    (IF stdout # << >>
     THEN << "=== PYTEST OUTPUT ===", "\n" >> \o stdout \o << "\n" >>
     ELSE << >>)
    \o (IF stderr # << >>
        THEN << "=== PYTEST ERRORS ===", "\n" >> \o stderr \o << "\n" >>
        ELSE << >>)

\* combined = (stdout or "") + "\n" + (stderr or "")
Combined(stdout, stderr) == stdout \o << "\n" >> \o stderr

\* _parse_test_summary as a step: the counters and the labels it sets
ParseAndStore(text) ==
    LET counts == ParseTestSummary(text)
    IN  /\ tests_passed' = counts.passed
        /\ tests_failed' = counts.failed
        /\ tests_errors' = counts.errors
        /\ tests_skipped' = counts.skipped
        /\ tests_total' = counts.total
        /\ summary_labels' = counts

\* run_tests from the return of run_pytest to the end of _parse_test_summary
RunShow ==
    /\ pc = "returned"
    /\ last_stdout' = frame.stdout
    /\ last_stderr' = frame.stderr
    /\ output_text' = output_text \o OutputBlocks(frame.stdout, frame.stderr)
    /\ ParseAndStore(Combined(frame.stdout, frame.stderr))
    /\ pc' = "parsed"
    /\ UNCHANGED << event, targetVars, historyVars, hudVars, bootVars, frame, escaped,
                    runs_started, flag_var, cursor_label, cursor_on, ticks,
                    dialog, probe >>

\* the exit-code line
ExitLine(return_code) ==
    << "\n", "[EXIT CODE] ", ToString(return_code), "\n" >>

\* run_tests from the exit-code line to its end, _add_run_to_history included
RunCommit(times) ==
    /\ pc = "parsed"
    /\ output_text' = output_text \o ExitLine(frame.return_code)
    /\ \E timestamp \in times :
          LET entry == NewEntry(frame.return_code, frame.flag,
                                TextGet(output_text'), timestamp)
          IN  /\ run_history' = Recorded(run_history, entry)
              /\ recorded' = Append(recorded, entry)
    /\ history_listbox' = ListboxOf(run_history')
    /\ cursor_label' =
           Label(CompletionWords(frame.return_code, tests_failed, tests_errors))
    /\ pc' = "mainloop"
    /\ frame' = NoFrame
    /\ UNCHANGED << event, targetVars, counterVars, resultVars, hudVars, bootVars,
                    escaped, runs_started, flag_var, cursor_on, ticks, dialog,
                    probe >>

-----------------------------------------------------------------------------
(* History view and export.                                                *)

\* _on_history_select
OnHistorySelect(selections) ==
    /\ CanDispatch("user")
    /\ \E selection \in selections :
          LET found == SelectedEntry(run_history, selection)
          IN  /\ event' = [ widget |-> "history_listbox",
                            selection |-> selection ]
              /\ IF found = << >> \/ found[1].output = << >>
                 THEN UNCHANGED << output_text, cursor_label >>
                 ELSE /\ output_text' = found[1].output
                      /\ cursor_label' = Label("> HISTORY VIEW")
    /\ dialog' = ""
    /\ UNCHANGED << targetVars, counterVars, resultVars, historyVars, hudVars,
                    bootVars, runVars, flag_var, cursor_on, ticks, probe >>

\* _ensure_output_exists
EnsureOutputExists == StripNonEmpty(TextGet(output_text))

\* the message box an export ends with: answer is what the save dialog and
\* the write did
ExportDialog(answer) ==
    IF ~EnsureOutputExists THEN "No output"
    ELSE IF answer = "cancel" THEN ""
    ELSE IF answer = "written" THEN "Saved"
    ELSE "Error"

\* save_output_txt
SaveOutputTxt ==
    /\ CanDispatch("user")
    /\ \E answer \in { "cancel", "written", "oserror" } :
          dialog' = ExportDialog(answer)
    /\ event' = NoEvent
    /\ UNCHANGED << targetVars, counterVars, resultVars, historyVars, hudVars,
                    bootVars, runVars, flag_var, output_text, cursor_label,
                    cursor_on, ticks, probe >>

\* save_output_html
SaveOutputHtml ==
    /\ CanDispatch("user")
    /\ \E answer \in { "cancel", "written", "oserror" } :
          dialog' = ExportDialog(answer)
    /\ event' = NoEvent
    /\ UNCHANGED << targetVars, counterVars, resultVars, historyVars, hudVars,
                    bootVars, runVars, flag_var, output_text, cursor_label,
                    cursor_on, ticks, probe >>

-----------------------------------------------------------------------------------------------------------------------------------------------------
(* The window: every callback.                                             *)

Next ==
    \/ StartBootSequence
    \/ BootStep
    \/ BlinkCursor
    \/ AnimateScanline
    \/ UpdateHud
    \/ SelectFlag(LoopFlags)
    \/ OnModeChange
    \/ SelectPath(FilePaths, DirPaths)
    \/ RunNoTarget
    \/ RunStart(MaxLoopRuns)
    \/ RunInvoke(LoopOutcomes)
    \/ RunShow
    \/ RunCommit(Times)
    \/ OnHistorySelect(LoopSelections)
    \/ SaveOutputTxt
    \/ SaveOutputHtml

Spec == Init /\ [][Next]_vars

(* Sessions of runs over every behaviour of the runner.                    *)

NextRuns ==
    \/ StartBootSequence
    \/ BootStep
    \/ SelectFlag(RunFlags)
    \/ SelectPath(FilePaths, DirPaths)
    \/ RunStart(MaxRuns)
    \/ RunInvoke(Outcomes)
    \/ RunShow
    \/ RunCommit(Times)
    \/ OnHistorySelect(Selections)

SpecRuns == Init /\ [][NextRuns]_vars

(* Sessions long enough to fill the history and push entries out of it.    *)

NextHistory ==
    \/ StartBootSequence
    \/ BootStep
    \/ SelectPath(FilePaths, DirPaths)
    \/ RunStart(MaxRecords)
    \/ RunInvoke(HistoryOutcomes)
    \/ RunShow
    \/ RunCommit(Times)
    \/ OnHistorySelect(Selections)

SpecHistory == Init /\ [][NextHistory]_vars

(* Sessions that change mode and target between the runs.                  *)

\* what askdirectory returns: a folder, or the root of the file system
TargetDirs == DirPaths \cup { << "/" >> }

TargetOutcomes == { NoisyRun, KilledRun }

NextTargets ==
    \/ StartBootSequence
    \/ BootStep
    \/ SelectFlag(RunFlags)
    \/ OnModeChange
    \/ SelectPath(FilePaths, TargetDirs)
    \/ RunStart(MaxRuns)
    \/ RunInvoke(TargetOutcomes)
    \/ RunShow
    \/ RunCommit(Times)
    \/ OnHistorySelect(LoopSelections)

SpecTargets == Init /\ [][NextTargets]_vars

-----------------------------------------------------------------------------
(* run_pytest on its own: every flag, every behaviour of subprocess.run.   *)

InvokeFlags ==
    FlagValues
    \cup { None, << >>,
           << "n", "o", "r", "m", "a", "l" >>,
           << "N", "O", "R", "M", "A", "L" >>,
           << "n", "O", "r", "M", "a", "L" >>,
           << "n", "o", "r", "m", "a", "l", "x" >>,
           << "-", "Q" >>,
           << "-", "-", "l", "f" >> }

InvokePaths == FilePaths \cup DirPaths \cup { << "/", "missing" >> }

InvokeOutcomes == Outcomes \cup { DeniedSpawn }

InitInvoke ==
    /\ InitWindow
    /\ \E path \in InvokePaths, isdir \in BOOLEAN, flag \in InvokeFlags,
          os \in InvokeOutcomes :
          probe = [ fn |-> "run_pytest",
                    args |-> [ target_path |-> path, is_directory |-> isdir,
                               flag |-> flag, os |-> os ],
                    done |-> FALSE, result |-> << >> ]

\* one call of run_pytest
CallRunPytest ==
    /\ probe.fn = "run_pytest"
    /\ ~probe.done
    /\ probe' = [ probe EXCEPT
                    !.done = TRUE,
                    !.result = run_pytest(probe.args.target_path,
                                          probe.args.is_directory,
                                          probe.args.flag, probe.args.os) ]
    /\ UNCHANGED << event, targetVars, counterVars, resultVars, historyVars, hudVars,
                    bootVars, runVars, flag_var, output_text, cursor_label,
                    cursor_on, ticks, dialog >>

SpecInvoke == InitInvoke /\ [][CallRunPytest]_vars

-----------------------------------------------------------------------------
(* _parse_test_summary on its own.                                         *)

\* the tokens of the texts tried exhaustively
Alphabet == { "1", "2", " ", "\t", "\n", "passed", "error", "s" }

ShortTexts == UNION { [1..n -> Alphabet] : n \in 0..MaxTextLen }

\* lines as pytest prints them
SampleLines ==
    { << "3", " ", "passed", ",", " ", "1", " ", "failed", ",", " ",
         "2", " ", "s", "kipped", " ", "in", " ", "0", ".", "1", "2", "s" >>,
      << "5", " ", "passed", " ", "in", " ", "0", ".", "0", "2", "s" >>,
      << "no", " ", "tests", " ", "ran" >>,
      << "1", " ", "failed", ",", " ", "2", " ", "error", "s", " ", "in", " ",
         "0", ".", "3", "s" >>,
      << "3", " ", "passed" >>,
      << "1", " ", "failed" >>,
      << "2", " ", "s", "kipped" >> }

RECURSIVE JoinLines(_)
\* "\n".join(lines)
JoinLines(lines) ==
    IF lines = << >> THEN << >>
    ELSE IF Len(lines) = 1 THEN lines[1]
    ELSE lines[1] \o << "\n" >> \o JoinLines(Tail(lines))

SampleTexts ==
    { JoinLines(ls) : ls \in UNION { [1..n -> SampleLines] : n \in 0..MaxLines } }

InitParse ==
    /\ InitWindow
    /\ \E text \in ShortTexts \cup SampleTexts :
          probe = [ fn |-> "_parse_test_summary", args |-> [ text |-> text ],
                    done |-> FALSE, result |-> << >> ]

\* one call of _parse_test_summary
CallParse ==
    /\ probe.fn = "_parse_test_summary"
    /\ ~probe.done
    /\ ParseAndStore(probe.args.text)
    /\ probe' = [ probe EXCEPT !.done = TRUE ]
    /\ UNCHANGED << event, targetVars, resultVars, historyVars, hudVars, bootVars,
                    runVars, flag_var, output_text, cursor_label, cursor_on,
                    ticks, dialog >>

SpecParse == InitParse /\ [][CallParse]_vars

-----------------------------------------------------------------------------
(* Properties.                                                             *)

\* the entry recorded last
Newest(history) == history[Len(history)]

\* C1: after N recorded runs the history holds exactly min(N, 5) entries,
\* the min(N, 5) recorded last, oldest first; its length never exceeds 5.
C1_HistoryIsLastFive ==
    LET n == Len(recorded)
        k == IF n < 5 THEN n ELSE 5
    IN  /\ Len(run_history) = k
        /\ Len(run_history) <= 5
        /\ \A i \in 1..k : run_history[i] = recorded[n - k + i]

\* six runs recorded, the first pushed out, the second now the oldest
C1_Witness ==
    /\ Len(recorded) = 6
    /\ Len(run_history) = 5
    /\ recorded[1] # recorded[2]
    /\ run_history[1] = recorded[2]
    /\ run_history[5] = recorded[6]

\* the sum of the integers that stand, in a line, before blanks and the word:
\* each place where an integer, blanks and the word follow each other counts
\* once, whatever follows the word
OccurrenceSum(line, word) ==
    SumSeq([p \in 1..Len(line) |->
               IF /\ IsDigit(line[p])
                  /\ (p = 1 \/ ~IsDigit(line[p - 1]))
                  /\ SpaceEnd(line, DigitsEnd(line, p)) > DigitsEnd(line, p)
                  /\ LET w == SpaceEnd(line, DigitsEnd(line, p))
                     IN  /\ w + Len(word) - 1 <= Len(line)
                         /\ SubSeq(line, w, w + Len(word) - 1) = word
               THEN IntOf(SubSeq(line, p, DigitsEnd(line, p) - 1))
               ELSE 0])

\* the same over the candidate lines of a text
ExpectedCount(text, word) ==
    LET lines == SplitLines(text)
    IN  SumSeq([n \in 1..Len(lines) |->
                   IF IsCandidate(lines[n]) THEN OccurrenceSum(lines[n], word)
                   ELSE 0])

Parsed == probe.fn = "_parse_test_summary" /\ probe.done

\* C2: every occurrence of an integer, blanks and a category word adds the
\* integer exactly once to the count of its category; "N error" and
\* "N errors" both add N to the errors.
C2_EachOccurrenceOnce ==
    Parsed =>
        /\ tests_passed = ExpectedCount(probe.args.text, << "passed" >>)
        /\ tests_failed = ExpectedCount(probe.args.text, << "failed" >>)
        /\ tests_errors = ExpectedCount(probe.args.text, << "error" >>)
        /\ tests_skipped = ExpectedCount(probe.args.text, << "s", "kipped" >>)

\* C3: the current counters and the counts of every history entry satisfy
\* total = passed + failed + errors + skipped, none of them negative.
C3_TotalIsSum ==
    /\ tests_total = tests_passed + tests_failed + tests_errors + tests_skipped
    /\ tests_passed >= 0 /\ tests_failed >= 0 /\ tests_errors >= 0
    /\ tests_skipped >= 0 /\ tests_total >= 0
    /\ \A i \in 1..Len(run_history) :
          LET c == run_history[i].counts
          IN  /\ c.total = c.passed + c.failed + c.errors + c.skipped
              /\ c.passed >= 0 /\ c.failed >= 0 /\ c.errors >= 0
              /\ c.skipped >= 0

\* a run with passed, failed and skipped tests is in the history
C3_Witness ==
    /\ run_history # << >>
    /\ Newest(run_history).counts.passed > 0
    /\ Newest(run_history).counts.failed > 0
    /\ Newest(run_history).counts.skipped > 0
    /\ tests_total = 3

\* the classification of an entry, from its own exit code and counts
ClassOf(entry) ==
    IF entry.exit_code = 0 /\ entry.counts.failed = 0 /\ entry.counts.errors = 0
    THEN "OK"
    ELSE "ISSUE"

\* the status bar text that goes with a classification
StatusBarOf(class) ==
    IF class = "OK" THEN Label("> RUN COMPLETE (OK)")
    ELSE Label("> RUN COMPLETE (ISSUES)")

\* C4: the status in the summary of every entry is OK if and only if its exit
\* code, its failed count and its errors count are all zero, ISSUE otherwise;
\* the status bar a run leaves shows the classification of the entry it made.
C4_StatusIsClassification ==
    /\ [](\A i \in 1..Len(run_history) :
              /\ run_history[i].summary[3] = ClassOf(run_history[i])
              /\ run_history[i].exit_code # 0 =>
                     run_history[i].summary[3] = "ISSUE")
    /\ [][pc = "parsed" /\ pc' = "mainloop" =>
              cursor_label' = StatusBarOf(ClassOf(Newest(run_history')))]_vars

\* a run that exits with 0 and reports an error is recorded as ISSUE, after
\* a clean run recorded as OK
C4_Witness ==
    /\ Len(run_history) = 2
    /\ run_history[1].summary[3] = "OK"
    /\ run_history[2].exit_code = 0
    /\ run_history[2].counts.errors > 0
    /\ run_history[2].summary[3] = "ISSUE"
    /\ cursor_label = Label("> RUN COMPLETE (ISSUES)")

Invoked == probe.fn = "run_pytest" /\ probe.done

\* C5: run_pytest lets no exception through: when subprocess.run raises it
\* returns empty stdout, a stderr that holds the exception's text, and exit
\* code 1; when the process completes it returns its stdout, stderr and code.
C5_NoExceptionEscapes ==
    Invoked =>
        LET os == probe.args.os
            r == probe.result
        IN  /\ ~r.raised
            /\ os.kind = "raises" =>
                   /\ r.stdout = << >>
                   /\ r.stderr # << >>
                   /\ Contains(r.stderr, os.msg)
                   /\ r.return_code = 1
            /\ os.kind = "completed" =>
                   /\ r.stdout = os.stdout
                   /\ r.stderr = os.stderr
                   /\ r.return_code = os.returncode

\* the decoding of the child's output has failed, and run_pytest has returned
C5_Witness ==
    /\ Invoked
    /\ probe.args.os.kind = "raises"
    /\ probe.args.os.exc = "UnicodeDecodeError"
    /\ probe.result.return_code = 1

\* C6: a selection of display index i shows the output of the entry at
\* history position len - 1 - i, the (i + 1)-th most recent; an empty
\* selection or an index outside the history changes nothing and raises
\* nothing.
C6_SelectionShowsEntry ==
    [][event'.widget = "history_listbox" =>
          LET sel == event'.selection
              n == Len(run_history)
          IN  /\ run_history' = run_history
              /\ escaped' = escaped
              /\ IF sel # << >> /\ sel[1] >= 0 /\ sel[1] < n
                 THEN /\ output_text' = run_history[(n - 1 - sel[1]) + 1].output
                      /\ run_history[(n - 1 - sel[1]) + 1]
                             = recorded[Len(recorded) - sel[1]]
                      /\ cursor_label' = Label("> HISTORY VIEW")
                 ELSE /\ output_text' = output_text
                      /\ cursor_label' = cursor_label
                      /\ last_stdout' = last_stdout
                      /\ last_stderr' = last_stderr]_vars

\* the last line of the listbox is selected after six runs, and the output of
\* the second run, now the oldest kept, is on the screen
C6_Witness ==
    /\ event.widget = "history_listbox"
    /\ event.selection = << 4 >>
    /\ Len(recorded) = 6
    /\ output_text = recorded[2].output
    /\ recorded[2].output # recorded[6].output
    /\ recorded[2].output # recorded[1].output

\* the spellings of "normal" in upper and lower case letters
SentinelSpellings ==
    { f \in [1..6 -> { "n", "N", "o", "O", "r", "R", "m", "M", "a", "A",
                       "l", "L" }] :
         /\ f[1] \in { "n", "N" } /\ f[2] \in { "o", "O" }
         /\ f[3] \in { "r", "R" } /\ f[4] \in { "m", "M" }
         /\ f[5] \in { "a", "A" } /\ f[6] \in { "l", "L" } }

\* C7: the command is the runner invocation, then the flag, then the target
\* path; the flag is in it if and only if it is present, not empty and not a
\* spelling of "normal", and then it is passed as it is.
C7_ArgumentVector ==
    Invoked =>
        LET cmd == probe.result.cmd
            flag == probe.args.flag
        IN  /\ SubSeq(cmd, 1, 3) = << << "python" >>, << "-m" >>, << "pytest" >> >>
            /\ cmd[Len(cmd)] = probe.args.target_path
            /\ IF flag = None \/ flag = << >> \/ flag \in SentinelSpellings
               THEN Len(cmd) = 4
               ELSE Len(cmd) = 5 /\ cmd[4] = flag

\* a flag outside the combobox is passed on as it is, before the path
C7_Witness ==
    /\ Invoked
    /\ probe.args.flag = << "-", "-", "l", "f" >>
    /\ probe.result.cmd[4] = << "-", "-", "l", "f" >>
    /\ probe.result.cmd[5] = probe.args.target_path

\* C8: each count is the sum, over every candidate line, of the integers of
\* all occurrences of its category in the line, and the total is the sum of
\* the four counts.
C8_SumOverLinesAndCategories ==
    Parsed =>
        CurrentCounts =
            [ passed |-> ExpectedCount(probe.args.text, << "passed" >>),
              failed |-> ExpectedCount(probe.args.text, << "failed" >>),
              errors |-> ExpectedCount(probe.args.text, << "error" >>),
              skipped |-> ExpectedCount(probe.args.text, << "s", "kipped" >>),
              total |-> ExpectedCount(probe.args.text, << "passed" >>)
                        + ExpectedCount(probe.args.text, << "failed" >>)
                        + ExpectedCount(probe.args.text, << "error" >>)
                        + ExpectedCount(probe.args.text, << "s", "kipped" >>) ]

\* the variables that the callbacks other than run_tests write, and run_tests
\* does not
OthersVars ==
    << targetVars, hudVars, bootVars, flag_var, cursor_on, ticks, dialog,
       event, runs_started >>

\* C9: at most one run is in flight: between the start of run_tests and the
\* commit of its entry every step is a step of that run, no other callback
\* and no other run is dispatched, and the runs complete one after another in
\* the order they were asked for.
C9_OneRunInFlight ==
    /\ [](/\ pc = "mainloop" => runs_started = Len(recorded)
          /\ pc # "mainloop" => runs_started = Len(recorded) + 1)
    /\ [][pc # "mainloop" =>
              /\ UNCHANGED OthersVars
              /\ pc = "banner" => pc' = "returned"
              /\ pc = "returned" => pc' = "parsed"
              /\ pc = "parsed" =>
                     pc' = "mainloop" /\ Len(recorded') = Len(recorded) + 1]_vars

\* the second run is in flight, the first one committed, the timers armed
C9_Witness ==
    /\ pc = "banner"
    /\ runs_started = 2
    /\ Len(recorded) = 1
    /\ ticks > 0

\* the fields of a history entry
EntryFields ==
    { "timestamp", "target_type", "target_name", "flag", "exit_code",
      "summary", "counts", "output" }

\* C10: a run started with a target commits exactly one entry, appended at
\* the tail of the history after run_pytest has returned and the output has
\* been parsed, with the exit code returned and the counts parsed; a spawn
\* that fails is recorded with exit code 1; no exception leaves run_tests;
\* the entries are in the order the runs completed.
C10_RunCommitsOneEntry ==
    /\ [](/\ ~escaped
          /\ pc = "mainloop" => Len(recorded) = runs_started
          /\ \A i \in 1..Len(run_history) :
                /\ DOMAIN run_history[i] = EntryFields
                /\ Contains(run_history[i].output,
                            << "Unexpected", " ", "error", " ", "running" >>)
                       => run_history[i].exit_code = 1)
    /\ [][run_history' # run_history =>
              /\ pc = "parsed" /\ pc' = "mainloop"
              /\ run_history' # << >>
              /\ LET kept == SubSeq(run_history', 1, Len(run_history') - 1)
                     new == run_history'[Len(run_history')]
                 IN  /\ \/ kept = run_history
                        \/ /\ Len(run_history) = 5
                           /\ kept = Tail(run_history)
                     /\ new.exit_code = frame.return_code
                     /\ new.counts = CurrentCounts
                     /\ new.counts.passed
                            = ExpectedCount(frame.stdout, << "passed" >>)
                              + ExpectedCount(frame.stderr, << "passed" >>)
                     /\ new.output = TextGet(output_text')]_vars

\* a spawn that failed is recorded with exit code 1 after a run that passed
C10_Witness ==
    /\ pc = "mainloop"
    /\ Len(run_history) = 2
    /\ run_history[1].exit_code = 0
    /\ run_history[2].exit_code = 1
    /\ Contains(run_history[2].output, << "No", " ", "s", "uch", " ", "file" >>)
    /\ run_history[2].counts.total = 0

\* the text of a run as the user sees it, piece after piece; the Text widget
\* closes what it holds with a newline of its own
SnapshotOf(folder, path, flag, stdout, stderr, code) ==
    Concat(<< << "[BOOT] pytest engaged on ",
                 IF folder THEN "FOLDER" ELSE "FILE", ":", "\n" >>,
              path, << "\n" >>,
              IF flag = None \/ flag = << >> \/ flag \in SentinelSpellings
              THEN << >>
              ELSE << "[FLAG] " >> \o flag \o << "\n" >>,
              << "\n" >>,
              IF stdout = << >> THEN << >>
              ELSE << "=== PYTEST OUTPUT ===", "\n" >> \o stdout \o << "\n" >>,
              IF stderr = << >> THEN << >>
              ELSE << "=== PYTEST ERRORS ===", "\n" >> \o stderr \o << "\n" >>,
              << "\n", "[EXIT CODE] ", ToString(code), "\n" >>,
              << "\n" >> >>)

\* C11: the output stored in the entry of a run is, in this order, the
\* banner (kind and path of the target, and a flag line if and only if the
\* flag is present and not the sentinel), the output header and stdout if and
\* only if stdout is not empty, the errors header and stderr if and only if
\* stderr is not empty, and the exit-code line; it is what the terminal
\* shows for the run, with nothing of an earlier run or history view.
C11_SnapshotOrder ==
    /\ [][pc # "mainloop" =>
              UNCHANGED << selected_path, is_directory, mode_var, flag_var >>]_vars
    /\ [][pc = "parsed" /\ pc' = "mainloop" =>
              /\ Len(recorded') = Len(recorded) + 1
              /\ Newest(recorded').output =
                     SnapshotOf(mode_var = "folder", selected_path, flag_var,
                                frame.stdout, frame.stderr, frame.return_code)
              /\ Newest(recorded').output = TextGet(output_text')
              /\ Newest(run_history') = Newest(recorded')]_vars

\* a run on a folder with a flag, with stdout and stderr, is recorded after a
\* run on a file
C11_Witness ==
    /\ Len(run_history) = 2
    /\ run_history[2].flag = << "-", "q" >>
    /\ run_history[1].target_type = "FILE"
    /\ Contains(run_history[2].output,
                << "[BOOT] pytest engaged on ", "FOLDER", ":", "\n",
                   "/", "p", "/", "tests", "\n", "[FLAG] ", "-", "q", "\n",
                   "\n", "=== PYTEST OUTPUT ===" >>)
    /\ Contains(run_history[2].output,
                << "=== PYTEST OUTPUT ===", "\n", "1", " ", "passed", "\n", "\n",
                   "=== PYTEST ERRORS ===", "\n", "1", " ", "error", "\n", "\n",
                   "\n", "[EXIT CODE] ", "0", "\n" >>)
    /\ run_history[1].output # run_history[2].output

\* the number of entries that have left the history
Evicted == Len(recorded) - Len(run_history)

\* C12: an entry in the history never changes and never changes place
\* relative to another; a record made while the history holds fewer than 5
\* entries removes nothing, and a record made while it holds 5 removes the
\* oldest entry and no other; nothing else removes an entry.
C12_EntriesImmutable ==
    /\ [](/\ Evicted >= 0
          /\ \A i \in 1..Len(run_history) :
                run_history[i] = recorded[Evicted + i])
    /\ [][/\ \A i \in 1..Len(recorded) : recorded'[i] = recorded[i]
          /\ \/ run_history' = run_history
             \/ /\ Len(run_history) < 5
                /\ Len(run_history') = Len(run_history) + 1
                /\ SubSeq(run_history', 1, Len(run_history)) = run_history
             \/ /\ Len(run_history) = 5
                /\ Len(run_history') = 5
                /\ SubSeq(run_history', 1, 4) = Tail(run_history)
          /\ Evicted' # Evicted =>
                /\ Len(run_history) = 5
                /\ Evicted' = Evicted + 1
                /\ Len(recorded') = Len(recorded) + 1]_vars

\* the newest entry is looked at after the sixth run has pushed the first
\* one out; the five entries kept are as they were recorded
C12_Witness ==
    /\ Len(recorded) = 6
    /\ run_history = SubSeq(recorded, 2, 6)
    /\ recorded[1] # recorded[6]
    /\ recorded[2] # recorded[3]
    /\ event.widget = "history_listbox"
    /\ event.selection = << 0 >>
    /\ output_text = recorded[6].output

\* the summaries of a history, the newest first
RECURSIVE NewestFirst(_)
NewestFirst(history) ==
    IF history = << >> THEN << >>
    ELSE << history[Len(history)].summary >>
         \o NewestFirst(SubSeq(history, 1, Len(history) - 1))

\* C13: the run history and the list that shows it change only in the step
\* that completes a run; the selection of a target, confirmed or cancelled,
\* a mode change, a history selection, the exports, a run request with no
\* target and the boot, cursor, scanline and HUD timers leave both as they
\* are.
C13_OnlyRunsChangeHistory ==
    /\ [](history_listbox = NewestFirst(run_history))
    /\ [][(run_history' # run_history \/ history_listbox' # history_listbox
           \/ recorded' # recorded) =>
              pc = "parsed" /\ pc' = "mainloop"]_vars
    /\ [][pc = "mainloop" /\ pc' = "mainloop" =>
              UNCHANGED << run_history, history_listbox >>]_vars

\* after a run: a timer has fired, the mode was changed, and a run was asked
\* for with no target; the history holds the one entry of the run
C13_Witness ==
    /\ Len(run_history) = 1
    /\ Len(recorded) = 1
    /\ history_listbox = << run_history[1].summary >>
    /\ selected_path = None
    /\ mode_var = "folder"
    /\ dialog = "No target"
    /\ ticks > 0
    /\ ~boot_in_progress

\* the counts of a text parsed with nothing parsed before it
FreshCounts(text) ==
    [ passed |-> Accumulate(text, "passed"),
      failed |-> Accumulate(text, "failed"),
      errors |-> Accumulate(text, "errors"),
      skipped |-> Accumulate(text, "skipped"),
      total |-> Accumulate(text, "passed") + Accumulate(text, "failed")
                + Accumulate(text, "errors") + Accumulate(text, "skipped") ]

\* C14: the counts depend on the text parsed alone: after the parse of a run
\* the counters, and then the counts of its entry, are the counts of the
\* run's own stdout and stderr, with nothing added from the runs before; two
\* runs with the same output have the same counts whatever ran in between.
C14_ParseIgnoresEarlierRuns ==
    /\ [][pc = "returned" /\ pc' = "parsed" =>
              CurrentCounts' =
                  FreshCounts(frame.stdout \o << "\n" >> \o frame.stderr)]_vars
    /\ [][pc = "parsed" /\ pc' = "mainloop" =>
              /\ CurrentCounts' =
                     FreshCounts(frame.stdout \o << "\n" >> \o frame.stderr)
              /\ Newest(recorded').counts = CurrentCounts']_vars
    /\ [](\A i, j \in 1..Len(recorded) :
              recorded[i].output = recorded[j].output =>
                  recorded[i].counts = recorded[j].counts)

\* the third run has the output of the first, a run with failures between
\* them, and the counts of the first
C14_Witness ==
    /\ Len(recorded) = 3
    /\ recorded[1].output = recorded[3].output
    /\ recorded[1].counts.passed = 2
    /\ recorded[2].counts.total = 3
    /\ recorded[3].counts = recorded[1].counts
    /\ tests_passed = 2
    /\ tests_total = 2

\* C15: the RUN button is enabled if and only if a target is selected; a
\* target is selected only after the boot sequence has ended, so no run is
\* made before; a run asked for with no target starts no runner, records
\* nothing and leaves the counters as they are.
C15_RunButtonFollowsTarget ==
    /\ [](/\ run_button.state = "normal" <=> selected_path # None
          /\ run_button.state \in { "normal", "disabled" }
          /\ select_button.state = "normal" <=> ~boot_in_progress
          /\ selected_path # None => ~boot_in_progress
          /\ (runs_started > 0 \/ pc # "mainloop" \/ recorded # << >>) =>
                 ~boot_in_progress)
    /\ [][pc' # pc /\ pc = "mainloop" =>
              selected_path # None /\ run_button.state = "normal"]_vars
    /\ [][dialog' = "No target" =>
              /\ selected_path = None
              /\ UNCHANGED << pc, frame, runs_started, run_history, recorded,
                              history_listbox, counterVars, resultVars,
                              run_button, selected_path >>]_vars

\* after a run the mode is set to file again, which clears the target, and a
\* run is asked for: the warning is shown, the counters of the run remain
C15_Witness ==
    /\ dialog = "No target"
    /\ run_button.state = "disabled"
    /\ selected_path = None
    /\ select_button = [ state |-> "normal", text |-> "SELECT FILE" ]
    /\ runs_started = 1
    /\ Len(recorded) = 1
    /\ tests_total = 2

\* the part of a path after its last "/", the whole of it when it has none
AfterLastSlash(path) ==
    LET k == CHOOSE k \in 0..Len(path) :
                 /\ k = 0 \/ path[k] = "/"
                 /\ \A j \in (k + 1)..Len(path) : path[j] # "/"
    IN  SubSeq(path, k + 1, Len(path))

\* the step of run_tests that records the run
Commits == pc = "parsed" /\ pc' = "mainloop"

\* the kind stored with a target agrees with the mode, and target and mode
\* stay as they are while a run is in flight
KindAgreesWithMode ==
    /\ [](selected_path # None => (is_directory <=> mode_var = "folder"))
    /\ [][pc # "mainloop" =>
              UNCHANGED << selected_path, is_directory, mode_var >>]_vars
    /\ [][Commits =>
              /\ Newest(recorded').target_type \in { "FILE", "FOLDER" }
              /\ Newest(recorded').target_type = "FOLDER"
                     <=> mode_var = "folder"]_vars

\* C16, as stated: the kind stored with a selected target agrees with the
\* mode, the target_type of every entry is FOLDER if and only if its run was
\* started in folder mode, and its target_name is the basename of the path
\* selected for the run.
C16_NameIsBasename ==
    /\ KindAgreesWithMode
    /\ [][Commits =>
              Newest(recorded').target_name = AfterLastSlash(selected_path)]_vars

\* C16, amended: as above, with the target_name the basename of the path
\* selected for the run when that basename is not empty, and the path itself
\* when it is, as for the root folder.
C16_NameIsBasenameOrPath ==
    /\ KindAgreesWithMode
    /\ [][Commits =>
              Newest(recorded').target_name =
                  IF AfterLastSlash(selected_path) # << >>
                  THEN AfterLastSlash(selected_path)
                  ELSE selected_path]_vars

\* a run on a file, then the mode set to folder and a run on the root folder
C16_Witness ==
    /\ Len(run_history) = 2
    /\ run_history[1].target_type = "FILE"
    /\ run_history[1].target_name = << "test_a.py" >>
    /\ run_history[2].target_type = "FOLDER"
    /\ run_history[2].target_name = << "/" >>
    /\ mode_var = "folder"
    /\ is_directory
    /\ selected_path = << "/" >>

====
